---- MODULE Spec2Model ----
(***************************************************************************)
(* Recommendation safety-gate state machine of the edge server             *)
(* (edge-server/app/services/recommendation_service.py and its API         *)
(* routes).  The two tables ml_recommendations and ml_action_audit are     *)
(* the state; every service method is an action.  approve_recommendation   *)
(* reads the row with a SELECT and writes it with a later, unguarded       *)
(* UPDATE, so it is modelled as two steps that other callers' statements   *)
(* may interleave with (PostgreSQL READ COMMITTED, one connection per      *)
(* call).  reject_recommendation, mark_executed and the expiry sweep are a *)
(* single UPDATE plus the audit INSERT in one transaction: one step each.  *)
(***************************************************************************)
EXTENDS Integers, Sequences, FiniteSets, TLC

\* ---------------------------------------------------------------- bounds
MaxTime == 3                       \* clock readings 0..MaxTime
MaxRecs == 2                       \* rows of ml_recommendations
MaxAudit == 3                      \* rows of ml_action_audit
default_expiration_minutes == 2    \* REC_EXPIRATION_MINUTES, in clock ticks

\* Concurrent API callers; the operator id (X-Operator-ID) is the caller.
Callers == {"op1", "op2"}

\* 'success', 'failed', or 'plc_rejected' (mark_executed docstring)
ExecutionStatuses == {"success", "plc_rejected"}

\* The drafts handed to create_recommendation: device_id, target_parameter,
\* recommended_value and priority; values below, inside and above the
\* temperature limit, and one for a parameter without an enabled limit.
Drafts ==
    { [device_id |-> "dev1", target_parameter |-> "temperature",
       recommended_value |-> 1, priority |-> 2],
      [device_id |-> "dev1", target_parameter |-> "temperature",
       recommended_value |-> 2, priority |-> 1],
      [device_id |-> "dev1", target_parameter |-> "temperature",
       recommended_value |-> 3, priority |-> 2],
      [device_id |-> "dev2", target_parameter |-> "pressure",
       recommended_value |-> 3, priority |-> 1] }

\* The device filters get_pending_recommendations is called with (NULL: none).
DeviceFilters == {<<>>, <<"dev1">>, <<"dev2">>}

\* A NULL column is the empty sequence, a value v is <<v>>.
NULL == <<>>

\* ------------------------------------------------------- configuration
\* Rows of the read-only safety_limits table: an enabled limit [2, 2] for
\* dev1's temperature, a disabled one for dev2's pressure.
safety_limits ==
    { [device_id |-> "dev1", parameter_name |-> "temperature", min_value |-> 2,
       max_value |-> 2, max_rate_of_change |-> 1, enabled |-> TRUE],
      [device_id |-> "dev2", parameter_name |-> "pressure", min_value |-> 1,
       max_value |-> 3, max_rate_of_change |-> 1, enabled |-> FALSE] }

\* SELECT ... FROM safety_limits WHERE device_id = %s AND parameter_name = %s
\* AND enabled = true (the set is empty when cur.fetchone() returns None).
fetch_limits(device_id, parameter) ==
    { l \in safety_limits :
        l.device_id = device_id /\ l.parameter_name = parameter /\ l.enabled }

\* ---------------------------------------------------------------- state
VARIABLES
    now,                 \* datetime.now() / NOW()
    ml_recommendations,  \* recommendation_id -> row
    ml_action_audit,     \* append-only sequence of audit rows
    audit_fk,            \* does ml_action_audit reference ml_recommendations?
    pc,                  \* caller -> "idle" | "approve_update"
    rec_id_arg,          \* caller -> rec_id of its approve call in flight
    ret                  \* what the last completed call returned, and to whom

vars == <<now, ml_recommendations, ml_action_audit, audit_fk, pc, rec_id_arg, ret>>

VARIABLES
    data_sources,        \* FusionService.data_sources: registered names, in dict order
    results,             \* outcome of each read_data task, aligned with data_sources
    fusion_pc,           \* "constructed" | "idle" | "gather" | "done"
    acquired             \* what the last read_sensor_data call gave its caller

fusion_vars == <<data_sources, results, fusion_pc, acquired>>

VARIABLES
    scan_tasks,          \* the probes of the scan in flight, in creation order
    scan_pc,             \* "idle" | "gather" | "done"
    devices              \* what the last scan_network call returned

discovery_vars == <<scan_tasks, scan_pc, devices>>

VARIABLES
    trigger_pc,          \* the statement of receive_cid the trigger stands at
    cycle,               \* the locals of the trigger being handled
    response,            \* what the caller of the trigger has been sent
    background_tasks     \* the deferred upload: "none" | "scheduled" | ...

trigger_vars == <<trigger_pc, cycle, response, background_tasks>>

VARIABLES
    driver,              \* a protocol driver object: its class, max_retries, client
    driver_ret,          \* what the driver's last connect/disconnect call did
    adapter,             \* a ModbusPLCAdapter object: is_connected, client
    adapter_ret          \* what the adapter's last connect/disconnect call did

driver_vars == <<driver, driver_ret, adapter, adapter_ret>>

VARIABLES
    configured,          \* source names whose environment configures an adapter
    reachable,           \* source names whose endpoint accepts connections now
    is_connected,        \* source names whose adapter has is_connected = True
    shutdown_pos,        \* how many of data_sources shutdown() has disconnected
    completion_order     \* the order in which the cycle's read tasks finished

lifecycle_vars == <<configured, reachable, is_connected, shutdown_pos, completion_order>>

VARIABLES
    scan_request         \* the last scan_network call up to its gather

range_vars == <<scan_request>>

\* The state of the components other than the recommendation service and
\* the fusion service.
more_vars == <<discovery_vars, trigger_vars, driver_vars, lifecycle_vars, range_vars>>

outside_discovery == <<vars, fusion_vars, trigger_vars, driver_vars, lifecycle_vars, range_vars>>

outside_trigger == <<vars, fusion_vars, discovery_vars, driver_vars, lifecycle_vars, range_vars>>

outside_driver == <<vars, fusion_vars, discovery_vars, trigger_vars, lifecycle_vars, range_vars>>

\* Beside the fusion service and its adapters.
outside_lifecycle == <<discovery_vars, trigger_vars, driver_vars, range_vars>>

outside_range == <<vars, fusion_vars, discovery_vars, trigger_vars, driver_vars, lifecycle_vars>>

RecIds == 0..MaxTime

\* An id no create ever produced.
UnknownId == MaxTime + 1

\* The ids callers pass: every stored one and an unknown one.
CallIds == DOMAIN ml_recommendations \cup {UnknownId}
Known == DOMAIN ml_recommendations

\* ------------------------------------------------------- result values
NotFound == "Recommendation not found"
Expired == "Recommendation expired"
UnsafeValue == "Recommendation outside safe limits"
DbError == "database error"

\* f"Recommendation already {rec['status']}"
Already(status) ==
    CASE status = "approved" -> "Recommendation already approved"
      [] status = "rejected" -> "Recommendation already rejected"
      [] status = "executed" -> "Recommendation already executed"
      [] status = "expired" -> "Recommendation already expired"
      [] OTHER -> "Recommendation already pending"

InvalidState == { Already(s) : s \in {"approved", "rejected", "executed", "expired"} }

\* {"success": True, "rec_id": rec_id, "status": status}
Success(c, op, rec_id, status) ==
    [caller |-> c, op |-> op, rec_id |-> rec_id, success |-> TRUE, error |-> "",
     status |-> status, expired_count |-> 0]

\* {"success": False, "error": error}
Failure(c, op, rec_id, error) ==
    [caller |-> c, op |-> op, rec_id |-> rec_id, success |-> FALSE, error |-> error,
     status |-> "", expired_count |-> 0]

\* return expired_count
Count(n) ==
    [caller |-> "scheduler", op |-> "expire", rec_id |-> 0, success |-> TRUE, error |-> "",
     status |-> "", expired_count |-> n]

NoCall ==
    [caller |-> "", op |-> "none", rec_id |-> 0, success |-> FALSE, error |-> "",
     status |-> "", expired_count |-> 0]

AuditRow(rec_id, action, performed_by) ==
    [recommendation_id |-> rec_id, action |-> action, performed_by |-> performed_by]

\* Room left in the bounded audit table once every approve in flight has
\* written its row.
AuditRoom ==
    Len(ml_action_audit) + Cardinality({ c \in Callers : pc[c] = "approve_update" })
        < MaxAudit

\* ----------------------------------------------------------------- Init
\* The locals of receive_cid when a trigger arrives, with or without video.
NewCycle(video) ==
    [video |-> video, context |-> "unknown", sensor_data |-> {}, prediction |-> << >>,
     ldo_id |-> << >>, recommendation_ids |-> << >>, failed |-> {},
     stage_log |-> << >>]

\* No read_sensor_data call has returned yet.
NoAcquire == [kind |-> "none", data |-> {}, error |-> ""]

\* No call has been made on the object yet.
NoDriverCall ==
    [op |-> "none", kind |-> "none", value |-> FALSE, outcomes |-> << >>,
     attempts |-> 0, sleeps |-> << >>]

NoAdapterCall == [op |-> "none", value |-> FALSE]

\* scan_network has not been called yet.
NoScanRequest ==
    [subnet |-> [valid |-> FALSE, host_bits |-> 0], protocols |-> {}, called |-> FALSE,
     ips |-> << >>, scan_tasks |-> << >>, returned |-> << >>]

Init ==
    /\ now = 0
    /\ ml_recommendations = << >>
    /\ ml_action_audit = << >>
    /\ audit_fk \in BOOLEAN
    /\ pc = [c \in Callers |-> "idle"]
    /\ rec_id_arg = [c \in Callers |-> 0]
    /\ ret = NoCall
    /\ data_sources = << >>
    /\ results = << >>
    /\ fusion_pc = "constructed"
    /\ acquired = NoAcquire
    /\ scan_tasks = << >>
    /\ scan_pc = "idle"
    /\ devices = << >>
    /\ trigger_pc = "idle"
    /\ cycle = NewCycle(FALSE)
    /\ response = "none"
    /\ background_tasks = "none"
    /\ driver = [class |-> "none", max_retries |-> 0, client |-> "None"]
    /\ driver_ret = NoDriverCall
    /\ adapter = [is_connected |-> FALSE, client |-> "None"]
    /\ adapter_ret = NoAdapterCall
    /\ configured = {}
    /\ reachable = {}
    /\ is_connected = {}
    /\ shutdown_pos = 0
    /\ completion_order = << >>
    /\ scan_request = NoScanRequest

\* The clock advances between statements.
Tick ==
    /\ now < MaxTime
    /\ now' = now + 1
    /\ UNCHANGED <<ml_recommendations, ml_action_audit, audit_fk, pc, rec_id_arg, ret>>

\* --------------------------------------------------- create_recommendation
\* A range check that forgets the lower limit.
is_within_limits_upper_only(limits, recommended_value) ==
    IF limits # {}
    THEN \A l \in limits : recommended_value <= l.max_value
    ELSE TRUE

\* is_within_limits of lines 84-102
is_within_limits(limits, recommended_value) ==
    IF limits # {}
    THEN \A l \in limits : l.min_value <= recommended_value /\ recommended_value <= l.max_value
    ELSE TRUE

\* The row inserted by create_recommendation (lines 104-143); created_at
\* is the table's default, the time of the INSERT.
NewRow(device_id, recommendation) ==
    LET limits == fetch_limits(device_id, recommendation.target_parameter) IN
    [ status |-> "pending",
      device_id |-> device_id,
      target_parameter |-> recommendation.target_parameter,
      recommended_value |-> recommendation.recommended_value,
      priority |-> recommendation.priority,
      min_safe_value |-> IF limits # {} THEN <<(CHOOSE l \in limits : TRUE).min_value>> ELSE NULL,
      max_safe_value |-> IF limits # {} THEN <<(CHOOSE l \in limits : TRUE).max_value>> ELSE NULL,
      max_rate_of_change |->
          IF limits # {} THEN <<(CHOOSE l \in limits : TRUE).max_rate_of_change>> ELSE NULL,
      is_within_limits |-> is_within_limits(limits, recommendation.recommended_value),
      created_at |-> now,
      expires_at |-> <<now + default_expiration_minutes>>,
      approved_by |-> NULL,
      execution_status |-> NULL ]

\* recommendation_id is unique in ml_recommendations: an INSERT of an id
\* that is already stored raises.
unique_violation(rec_id) == rec_id \in Known

\* A create that overwrites the stored row when the id is taken.
create_recommendation_upsert(device_id, recommendation) ==
    LET rec_id == now IN
    /\ unique_violation(rec_id) \/ Cardinality(Known) < MaxRecs
    /\ AuditRoom
    /\ ml_recommendations' =
           [r \in Known \cup {rec_id} |->
               IF r = rec_id THEN NewRow(device_id, recommendation)
               ELSE ml_recommendations[r]]
    /\ ml_action_audit' = Append(ml_action_audit, AuditRow(rec_id, "created", "system"))
    /\ ret' = Success("system", "create", rec_id, "pending")
    /\ UNCHANGED <<now, audit_fk, pc, rec_id_arg>>

\* A create that refuses a parameter without an enabled safety limit.
create_recommendation_limits_required(device_id, recommendation) ==
    LET rec_id == now IN
    /\ unique_violation(rec_id) \/ Cardinality(Known) < MaxRecs
    /\ AuditRoom
    /\ IF \/ unique_violation(rec_id)
          \/ fetch_limits(device_id, recommendation.target_parameter) = {}
       THEN /\ ret' = Failure("system", "create", rec_id, DbError)
            /\ UNCHANGED <<ml_recommendations, ml_action_audit>>
       ELSE /\ ml_recommendations' =
                   [r \in Known \cup {rec_id} |->
                       IF r = rec_id THEN NewRow(device_id, recommendation)
                       ELSE ml_recommendations[r]]
            /\ ml_action_audit' =
                   Append(ml_action_audit, AuditRow(rec_id, "created", "system"))
            /\ ret' = Success("system", "create", rec_id, "pending")
    /\ UNCHANGED <<now, audit_fk, pc, rec_id_arg>>

\* Lines 63-160.  rec_id = f"REC-{timestamp}": the id is the clock reading.
\* The row and its `created` audit row are committed together and the id is
\* returned; an INSERT that raises (the id is taken) is re-raised by the
\* except branch and nothing is committed.
create_recommendation(device_id, recommendation) ==
    LET rec_id == now IN
    /\ unique_violation(rec_id) \/ Cardinality(Known) < MaxRecs
    /\ AuditRoom
    /\ IF unique_violation(rec_id)
       THEN /\ ret' = Failure("system", "create", rec_id, DbError)
            /\ UNCHANGED <<ml_recommendations, ml_action_audit>>
       ELSE /\ ml_recommendations' =
                   [r \in Known \cup {rec_id} |->
                       IF r = rec_id THEN NewRow(device_id, recommendation)
                       ELSE ml_recommendations[r]]
            /\ ml_action_audit' =
                   Append(ml_action_audit, AuditRow(rec_id, "created", "system"))
            /\ ret' = Success("system", "create", rec_id, "pending")
    /\ UNCHANGED <<now, audit_fk, pc, rec_id_arg>>

\* -------------------------------------------------- approve_recommendation
\* The checks with the expiry test made before the status test.
approve_check_expiry_first(found, rec, t) ==
    IF ~found THEN NotFound
    ELSE IF rec.expires_at # NULL /\ rec.expires_at[1] < t THEN Expired
    ELSE IF rec.status # "pending" THEN Already(rec.status)
    ELSE IF ~rec.is_within_limits THEN UnsafeValue
    ELSE ""

\* The checks without the expiry test.
approve_check_no_expiry(found, rec, t) ==
    IF ~found THEN NotFound
    ELSE IF rec.status # "pending" THEN Already(rec.status)
    ELSE IF ~rec.is_within_limits THEN UnsafeValue
    ELSE ""

\* Lines 238-250: the checks made on the fetched row, in the code's order.
\* "" means every check passed.
approve_check(found, rec, t) ==
    IF ~found THEN NotFound
    ELSE IF rec.status # "pending" THEN Already(rec.status)
    ELSE IF rec.expires_at # NULL /\ rec.expires_at[1] < t THEN Expired
    ELSE IF ~rec.is_within_limits THEN UnsafeValue
    ELSE ""

\* A row standing for "no row fetched".
NoRow ==
    NewRow("dev1", [target_parameter |-> "temperature", recommended_value |-> 1,
                    priority |-> 1])

\* An approve that marks the row expired when it finds it expired.
approve_select_expires_row(c, rec_id) ==
    LET found == rec_id \in Known
        rec == IF found THEN ml_recommendations[rec_id] ELSE NoRow
        error == approve_check(found, rec, now)
    IN
    /\ pc[c] = "idle"
    /\ AuditRoom
    /\ IF error # ""
       THEN /\ ret' = Failure(c, "approve", rec_id, error)
            /\ UNCHANGED <<pc, rec_id_arg>>
       ELSE /\ pc' = [pc EXCEPT ![c] = "approve_update"]
            /\ rec_id_arg' = [rec_id_arg EXCEPT ![c] = rec_id]
            /\ UNCHANGED ret
    /\ ml_recommendations' =
           IF error = Expired
           THEN [ml_recommendations EXCEPT ![rec_id].status = "expired"]
           ELSE ml_recommendations
    /\ UNCHANGED <<now, ml_action_audit, audit_fk>>

\* Lines 226-250: SELECT the row and run the checks; a failed check returns.
approve_select(c, rec_id) ==
    LET found == rec_id \in Known
        rec == IF found THEN ml_recommendations[rec_id] ELSE NoRow
        error == approve_check(found, rec, now)
    IN
    /\ pc[c] = "idle"
    /\ AuditRoom
    /\ IF error # ""
       THEN /\ ret' = Failure(c, "approve", rec_id, error)
            /\ UNCHANGED <<pc, rec_id_arg>>
       ELSE /\ pc' = [pc EXCEPT ![c] = "approve_update"]
            /\ rec_id_arg' = [rec_id_arg EXCEPT ![c] = rec_id]
            /\ UNCHANGED ret
    /\ UNCHANGED <<now, ml_recommendations, ml_action_audit, audit_fk>>

\* Lines 252-274: UPDATE ... WHERE recommendation_id = %s, the audit row,
\* commit, and the success result.
approve_update(c) ==
    LET rec_id == rec_id_arg[c] IN
    /\ pc[c] = "approve_update"
    /\ ml_recommendations' =
           [ml_recommendations EXCEPT ![rec_id].status = "approved",
                                      ![rec_id].approved_by = <<c>>]
    /\ ml_action_audit' = Append(ml_action_audit, AuditRow(rec_id, "approved", c))
    /\ pc' = [pc EXCEPT ![c] = "idle"]
    /\ ret' = Success(c, "approve", rec_id, "approved")
    /\ rec_id_arg' = [rec_id_arg EXCEPT ![c] = 0]
    /\ UNCHANGED <<now, audit_fk>>

\* --------------------------------------------------- reject_recommendation
\* Lines 299-330: UPDATE ... WHERE recommendation_id = %s AND status =
\* 'pending', then the audit row whatever the UPDATE matched.  With a
\* foreign key on the audit table the INSERT for an unknown id raises and
\* the except branch returns the error.
reject_recommendation(c, rec_id) ==
    /\ pc[c] = "idle"
    /\ AuditRoom
    /\ IF rec_id \notin Known /\ audit_fk
       THEN /\ ret' = Failure(c, "reject", rec_id, DbError)
            /\ UNCHANGED <<ml_recommendations, ml_action_audit>>
       ELSE /\ ml_recommendations' =
                   [r \in Known |->
                       IF r = rec_id /\ ml_recommendations[r].status = "pending"
                       THEN [ml_recommendations[r] EXCEPT !.status = "rejected",
                                                          !.approved_by = <<c>>]
                       ELSE ml_recommendations[r]]
            /\ ml_action_audit' = Append(ml_action_audit, AuditRow(rec_id, "rejected", c))
            /\ ret' = Success(c, "reject", rec_id, "rejected")
    /\ UNCHANGED <<now, audit_fk, pc, rec_id_arg>>

\* ----------------------------------------------------------- mark_executed
\* Lines 346-373: UPDATE ... WHERE recommendation_id = %s, then the audit
\* row; an exception (foreign key on an unknown id) is logged and nothing
\* is committed.
mark_executed(rec_id, execution_status) ==
    /\ AuditRoom
    /\ ~(rec_id \notin Known /\ audit_fk)
    /\ ml_recommendations' =
           [r \in Known |->
               IF r = rec_id
               THEN [ml_recommendations[r] EXCEPT !.status = "executed",
                                                  !.execution_status = <<execution_status>>]
               ELSE ml_recommendations[r]]
    /\ ml_action_audit' = Append(ml_action_audit, AuditRow(rec_id, "executed", "system"))
    /\ UNCHANGED <<now, audit_fk, pc, rec_id_arg, ret>>

\* ---------------------------------------------- expire_old_recommendations
\* The SQL function expire_old_recommendations(): the pending rows whose
\* expires_at has passed.
sql_expire_old_recommendations ==
    { r \in Known : /\ ml_recommendations[r].status = "pending"
                    /\ ml_recommendations[r].expires_at # NULL
                    /\ ml_recommendations[r].expires_at[1] < now }

\* A sweep that returns the count without committing the update.
expire_old_recommendations_no_commit ==
    /\ ret' = Count(Cardinality(sql_expire_old_recommendations))
    /\ UNCHANGED <<now, ml_recommendations, ml_action_audit, audit_fk, pc, rec_id_arg>>

\* A sweep that returns the number of rows that are expired after it.
expire_old_recommendations_counts_all ==
    LET stale == sql_expire_old_recommendations IN
    /\ ml_recommendations' =
           [r \in Known |->
               IF r \in stale THEN [ml_recommendations[r] EXCEPT !.status = "expired"]
               ELSE ml_recommendations[r]]
    /\ ret' = Count(Cardinality({ r \in Known : ml_recommendations'[r].status = "expired" }))
    /\ UNCHANGED <<now, ml_action_audit, audit_fk, pc, rec_id_arg>>

\* Lines 382-400: run the SQL function, commit, return its count.
expire_old_recommendations ==
    LET stale == sql_expire_old_recommendations IN
    /\ ml_recommendations' =
           [r \in Known |->
               IF r \in stale THEN [ml_recommendations[r] EXCEPT !.status = "expired"]
               ELSE ml_recommendations[r]]
    /\ ret' = Count(Cardinality(stale))
    /\ UNCHANGED <<now, ml_action_audit, audit_fk, pc, rec_id_arg>>

\* ---------------------------------------------- get_pending_recommendations
\* WHERE status = 'pending' [AND device_id = %s]
\*   AND (expires_at IS NULL OR expires_at > NOW())      (lines 179-195)
pending_rows(device_id) ==
    { r \in Known :
        /\ ml_recommendations[r].status = "pending"
        /\ device_id # NULL => ml_recommendations[r].device_id = device_id[1]
        /\ \/ ml_recommendations[r].expires_at = NULL
           \/ ml_recommendations[r].expires_at[1] > now }

\* An ordering on created_at alone.
comes_before_by_age(a, b) ==
    ml_recommendations[a].created_at <= ml_recommendations[b].created_at

\* ORDER BY priority ASC, created_at ASC: does row a sort no later than row b?
comes_before(a, b) ==
    \/ ml_recommendations[a].priority < ml_recommendations[b].priority
    \/ /\ ml_recommendations[a].priority = ml_recommendations[b].priority
       /\ ml_recommendations[a].created_at <= ml_recommendations[b].created_at

RECURSIVE order_by(_)
\* The rows of S in ORDER BY order.
order_by(S) ==
    IF S = {} THEN << >>
    ELSE LET first == CHOOSE a \in S : \A b \in S : comes_before(a, b)
         IN <<first>> \o order_by(S \ {first})

\* Lines 175-201: the ids of the rows returned, in the order returned.
get_pending_recommendations(device_id) == order_by(pending_rows(device_id))

\* ------------------------------------------------------------------ Next

(***************************************************************************)
(* FusionService: multi-source acquisition (services/fusion.py).           *)
(* A dict is a set of <<key, value>> pairs with one pair per key.          *)
(***************************************************************************)

\* The order in which initialize() tries and registers the adapters.
InitializeOrder == <<"modbus", "opcua", "mes", "erp", "scada", "historian">>

SourceNames == { InitializeOrder[i] : i \in DOMAIN InitializeOrder }

\* The fields an adapter's read may report.
Fields == {"temperature", "pressure"}

\* Outcomes of one read_data task under gather(return_exceptions=True).
Pending == [kind |-> "pending", data |-> {}]

Raised == [kind |-> "raised", data |-> {}]

Returned(d) == [kind |-> "ok", data |-> d]

\* What adapter.read_data may give: an exception, or a dict (maybe empty)
\* whose values are tagged with the adapter that read them.
read_data_results(source_name) ==
    {Raised} \cup { Returned({ <<f, source_name>> : f \in F }) : F \in SUBSET Fields }

\* What read_sensor_data gives its caller.
Return(d) == [kind |-> "return", data |-> d, error |-> ""]

Raise(e) == [kind |-> "raise", data |-> {}, error |-> e]

\* self._generate_mock_sensor_data is not an attribute of FusionService.
AttributeError == "AttributeError"

Keys(d) == { p[1] : p \in d }

update_keeps_existing(d, other) == d \cup { p \in other : p[1] \notin Keys(d) }

\* dict.update
update(d, other) == { p \in d : p[1] \notin Keys(other) } \cup other

\* combined_data before the loop: five empty categories.
EmptyCategories == [c \in {"plc", "mes", "erp", "scada", "historian"} |-> {}]

\* The if/elif chain that files one non-empty result under its category.
categorize(combined_data, source_name, result) ==
    IF source_name \in {"modbus", "opcua"}
    THEN [combined_data EXCEPT !["plc"] = update(@, result)]
    ELSE IF source_name \in {"mes", "erp", "scada", "historian"}
         THEN [combined_data EXCEPT ![source_name] = result]
         ELSE combined_data

RECURSIVE combine_stop_at_exception(_, _, _)
combine_stop_at_exception(combined_data, source_names, gathered) ==
    IF source_names = << >> \/ Head(gathered).kind = "raised"
    THEN combined_data
    ELSE combine_stop_at_exception(
             IF Head(gathered).data # {}
             THEN categorize(combined_data, Head(source_names), Head(gathered).data)
             ELSE combined_data,
             Tail(source_names), Tail(gathered))

\* The loop over zip(source_names, results): an exception is logged and
\* skipped, an empty result is skipped, anything else is categorized.
RECURSIVE combine(_, _, _)
combine(combined_data, source_names, gathered) ==
    IF source_names = << >>
    THEN combined_data
    ELSE combine(
             IF Head(gathered).kind = "raised"
             THEN combined_data
             ELSE IF Head(gathered).data # {}
                  THEN categorize(combined_data, Head(source_names), Head(gathered).data)
                  ELSE combined_data,
             Tail(source_names), Tail(gathered))

\* {k: v for k, v in combined_data.items() if v}
remove_empty(combined_data) ==
    { <<k, combined_data[k]>> : k \in { c \in DOMAIN combined_data : combined_data[c] # {} } }

\* initialize(): every adapter whose connect() succeeds is registered under
\* its type name, in the fixed order; none connecting leaves the dict empty.
initialize(connected) ==
    /\ fusion_pc = "constructed"
    /\ data_sources' = SelectSeq(InitializeOrder, LAMBDA n : n \in connected)
    /\ fusion_pc' = "idle"
    /\ UNCHANGED <<results, acquired, vars>>

\* read_sensor_data up to the await: no data source returns {} at once,
\* otherwise one read_data task per data source is started.
read_sensor_data_begin ==
    /\ fusion_pc \in {"idle", "done"}
    /\ IF data_sources = << >>
       THEN /\ results' = << >>
            /\ acquired' = Return({})
            /\ fusion_pc' = "done"
       ELSE /\ results' = [i \in DOMAIN data_sources |-> Pending]
            /\ acquired' = NoAcquire
            /\ fusion_pc' = "gather"
    /\ UNCHANGED <<data_sources, vars>>

\* One read_data task finishes; the tasks finish in any order.
read_data(i) ==
    /\ fusion_pc = "gather"
    /\ results[i] = Pending
    /\ \E outcome \in read_data_results(data_sources[i]) :
          results' = [results EXCEPT ![i] = outcome]
    /\ UNCHANGED <<data_sources, fusion_pc, acquired, vars>>

\* read_sensor_data after gather: combine, drop empty categories, and fall
\* back to the mock generator when nothing is left.
read_sensor_data_combine ==
    /\ fusion_pc = "gather"
    /\ \A i \in DOMAIN results : results[i] # Pending
    /\ LET combined_data == remove_empty(combine(EmptyCategories, data_sources, results))
       IN acquired' = IF combined_data = {}
                      THEN Raise(AttributeError)
                      ELSE Return(combined_data)
    /\ fusion_pc' = "done"
    /\ UNCHANGED <<data_sources, results, vars>>

(***************************************************************************)
(* DeviceDiscoveryService: network scan (services/device_discovery.py).    *)
(* None is << >>, a found device is <<device>>.                            *)
(***************************************************************************)

\* The host lists _generate_ip_range hands to a scan: none (an invalid or
\* empty range), one host, two hosts.
IpRanges == { << >>, <<"10.0.0.1">>, <<"10.0.0.1", "10.0.0.2">> }

\* The protocols scan_network knows, in the order it creates their probes.
ProtocolOrder == <<"modbus", "opcua", "http">>

\* How asyncio.open_connection under wait_for can end.
ProbeOutcomes == {"connected", "timeout", "refused", "error"}

\* ports = [80, 8080, 443, 8443]
http_ports == <<80, 8080, 443, 8443>>

identify_modbus_vendor ==
    [vendor |-> "Unknown", model |-> "Modbus TCP Device", template |-> "modbus_generic"]

identify_opcua_server ==
    [vendor |-> "Unknown", model |-> "OPC UA Server", template |-> "opcua_generic"]

\* _identify_http_server returns None.
identify_http_server == << >>

\* The dict a successful probe returns (discovered_at left out).
Device(ip, port, protocol, device_type, info) ==
    [ip |-> ip, port |-> port, protocol |-> protocol, vendor |-> info.vendor,
     model |-> info.model, device_type |-> device_type,
     recommended_template |-> info.template]

\* One probe coroutine: its arguments, how its connection attempt ended
\* ("connected" as soon as one port accepted, otherwise the last failure),
\* the next port it tries (http), and its return value once it is done.
Probe(ip, protocol) ==
    [ip |-> ip, protocol |-> protocol, outcome |-> "pending", port_index |-> 1,
     done |-> FALSE, result |-> << >>]

\* The probes of one address, in the order scan_network appends them.
probes_of(ip, protocols) ==
    LET Requested(p) == p \in protocols
        wanted == SelectSeq(ProtocolOrder, Requested)
    IN [k \in DOMAIN wanted |-> Probe(ip, wanted[k])]

\* The loop `for ip in ips`: the probes of each address, address by address.
create_scan_tasks(ips, protocols) ==
    LET per_ip == Len(probes_of(0, protocols))
    IN [k \in 1..(Len(ips) * per_ip) |->
           probes_of(ips[((k - 1) \div per_ip) + 1], protocols)[((k - 1) % per_ip) + 1]]

\* scan_network up to the await: one probe per address and requested protocol.
scan_network_begin(ips, protocols) ==
    /\ scan_pc \in {"idle", "done"}
    /\ scan_tasks' = create_scan_tasks(ips, protocols)
    /\ scan_pc' = "gather"
    /\ devices' = << >>

\* _scan_modbus: a device when port 502 accepts the connection, None when
\* the attempt times out, is refused or errors.
scan_modbus(i) ==
    /\ scan_pc = "gather"
    /\ scan_tasks[i].protocol = "modbus"
    /\ ~scan_tasks[i].done
    /\ \E outcome \in ProbeOutcomes :
          scan_tasks' = [scan_tasks EXCEPT ![i] =
              [@ EXCEPT !.outcome = outcome, !.done = TRUE,
                        !.result = IF outcome = "connected"
                                   THEN <<Device(scan_tasks[i].ip, 502, "modbus_tcp", "plc",
                                                 identify_modbus_vendor)>>
                                   ELSE << >>]]
    /\ UNCHANGED <<scan_pc, devices>>

\* _scan_opcua: the same on port 4840.
scan_opcua(i) ==
    /\ scan_pc = "gather"
    /\ scan_tasks[i].protocol = "opcua"
    /\ ~scan_tasks[i].done
    /\ \E outcome \in ProbeOutcomes :
          scan_tasks' = [scan_tasks EXCEPT ![i] =
              [@ EXCEPT !.outcome = outcome, !.done = TRUE,
                        !.result = IF outcome = "connected"
                                   THEN <<Device(scan_tasks[i].ip, 4840, "opcua", "plc",
                                                 identify_opcua_server)>>
                                   ELSE << >>]]
    /\ UNCHANGED <<scan_pc, devices>>

\* _scan_http, one pass of its loop over the ports: a connection that
\* succeeds returns a device only if the server is identified, otherwise the
\* loop goes on; after the last port the probe returns None.
scan_http(i) ==
    /\ scan_pc = "gather"
    /\ scan_tasks[i].protocol = "http"
    /\ ~scan_tasks[i].done
    /\ \E outcome \in ProbeOutcomes :
          LET t == scan_tasks[i]
              port == http_ports[t.port_index]
              server_info == identify_http_server
              found == outcome = "connected" /\ server_info # << >>
              last == t.port_index = Len(http_ports)
          IN scan_tasks' = [scan_tasks EXCEPT ![i] =
                 [@ EXCEPT !.outcome = IF @ = "connected" THEN @ ELSE outcome,
                           !.port_index = IF found \/ last THEN @ ELSE @ + 1,
                           !.done = found \/ last,
                           !.result = IF found
                                      THEN <<Device(t.ip, port, "http", "mes", server_info)>>
                                      ELSE << >>]]
    /\ UNCHANGED <<scan_pc, devices>>

RECURSIVE found_devices_until_none(_)
found_devices_until_none(tasks) ==
    IF tasks = << >> \/ Head(tasks).result = << >>
    THEN << >>
    ELSE Head(tasks).result \o found_devices_until_none(Tail(tasks))

RECURSIVE found_devices(_)
found_devices(tasks) ==
    IF tasks = << >> THEN << >> ELSE Head(tasks).result \o found_devices(Tail(tasks))

\* scan_network after gather: the results that are devices, in probe order.
scan_network_return ==
    /\ scan_pc = "gather"
    /\ \A i \in DOMAIN scan_tasks : scan_tasks[i].done
    /\ devices' = found_devices(scan_tasks)
    /\ scan_pc' = "done"
    /\ UNCHANGED scan_tasks

(***************************************************************************)
(* The trigger pipeline: POST /cid (main.py receive_cid) with the fusion   *)
(* service's fuse_data, run_inference and generate_recommendations.        *)
(***************************************************************************)

\* dict.get(key): the values stored under key, none or one.
get(d, key) == { p[2] : p \in { q \in d : q[1] = key } }

\* dict.get(key, default)
get_or(d, key, default) ==
    IF get(d, key) = {} THEN default ELSE CHOOSE v \in get(d, key) : TRUE

\* The PLC dicts an acquisition may bring.
PlcReadings ==
    { {<<"temperature", 85>>},
      {<<"temperature", 95>>},
      {<<"temperature", 96>>, <<"pressure", 90>>},
      {<<"temperature", 0>>, <<"pressure", 80>>},
      {<<"temperature", 90>>, <<"pressure", 0>>},
      {<<"vibration", 5>>, <<"rpm", 900>>, <<"cycle_time", 30>>, <<"pressure", 90>>} }

\* The maps read_sensor_data may return to the trigger: empty, PLC data,
\* or data of another category only.
SensorReads ==
    { {} } \cup { {<<"plc", d>>} : d \in PlcReadings } \cup { {<<"mes", {<<"work_order", 1>>}>>} }

\* The pipeline stages in the order receive_cid awaits them.
Pipeline == <<"lookup", "acquire", "fuse", "score", "persist", "derive">>

Minimum(a, b) == IF a < b THEN a ELSE b

Maximum(a, b) == IF a > b THEN a ELSE b

\* The temperature rule: a draft when the reading is truthy and above 85.
temperature_rule(plc_data) ==
    LET temperature == get(plc_data, "temperature")
    IN IF \E t \in temperature : t # 0 /\ t > 85
       THEN LET t == CHOOSE v \in temperature : TRUE
            IN <<[action_type |-> "adjust_temperature",
                  target_parameter |-> "temperature",
                  current_value |-> temperature,
                  recommended_value |-> Minimum(t - 10, 75),
                  priority |-> IF t > 95 THEN 1 ELSE 2]>>
       ELSE << >>

\* The vibration rule: reduce the speed when vibration is above 4.0.
vibration_rule(plc_data) ==
    LET vibration == get(plc_data, "vibration")
    IN IF \E v \in vibration : v # 0 /\ v > 4
       THEN LET v == CHOOSE x \in vibration : TRUE
            IN <<[action_type |-> "reduce_speed",
                  target_parameter |-> "rpm",
                  current_value |-> get(plc_data, "rpm"),
                  recommended_value |-> 50,
                  priority |-> IF v > 6 THEN 1 ELSE 2]>>
       ELSE << >>

\* The pressure rule: raise the pressure when it is truthy and below 85.
pressure_rule(plc_data) ==
    LET pressure == get(plc_data, "pressure")
    IN IF \E v \in pressure : v # 0 /\ v < 85
       THEN LET v == CHOOSE x \in pressure : TRUE
            IN <<[action_type |-> "adjust_pressure",
                  target_parameter |-> "pressure",
                  current_value |-> pressure,
                  recommended_value |-> Maximum(v + 10, 95),
                  priority |-> 2]>>
       ELSE << >>

\* The cycle-time rule: target 22 seconds when the cycle takes more than 28.
cycle_time_rule(plc_data) ==
    LET cycle_time == get(plc_data, "cycle_time")
    IN IF \E v \in cycle_time : v # 0 /\ v > 28
       THEN <<[action_type |-> "optimize_cycle_time",
               target_parameter |-> "cycle_time",
               current_value |-> cycle_time,
               recommended_value |-> 22,
               priority |-> 3]>>
       ELSE << >>

\* The drafts the four rules emit, in the order of the code.
rule_drafts(plc_data) ==
    temperature_rule(plc_data) \o vibration_rule(plc_data)
        \o pressure_rule(plc_data) \o cycle_time_rule(plc_data)

\* generate_recommendations: nothing without PLC data; otherwise every
\* emitted draft is handed to create_recommendation, and a draft whose
\* create raises (those in `failing`) is logged and left out.
generate_recommendations(sensor_data, failing) ==
    LET plc_data == get_or(sensor_data, "plc", {})
        Created(d) == d.target_parameter \notin failing
    IN IF plc_data = {} THEN << >> ELSE SelectSeq(rule_drafts(plc_data), Created)

\* run_inference's heuristic, with its default of 0 for an absent reading.
is_defective(plc_data) ==
    \/ get_or(plc_data, "temperature", 0) > 90
    \/ get_or(plc_data, "vibration", 0) > 5
    \/ get_or(plc_data, "pressure", 0) < 80
    \/ get_or(plc_data, "cycle_time", 0) > 30

\* random.uniform(0.85, 0.98) for good, (0.75, 0.95) for defective: the
\* ends of the interval, in percent.
confidences(defective) == IF defective THEN {75, 95} ELSE {85, 98}

run_inference(sensor_data, confidence) ==
    <<[result |-> IF is_defective(get_or(sensor_data, "plc", {})) THEN "defective" ELSE "good",
       confidence |-> confidence]>>

\* The stage named is appended to the log of stages this trigger has run.
Ran(stage) == [cycle EXCEPT !.stage_log = Append(@, stage)]

\* HTTPException(status_code): the trigger ends with that answer.
http_exception(status_code, ran) ==
    /\ response' = status_code
    /\ trigger_pc' = "responded"
    /\ cycle' = ran
    /\ UNCHANGED background_tasks

\* POST /cid arrives (one trigger is followed at a time).
receive_cid(video) ==
    /\ trigger_pc \in {"idle", "responded"}
    /\ background_tasks \notin {"scheduled", "running"}
    /\ trigger_pc' = "lookup"
    /\ cycle' = NewCycle(video)
    /\ response' = "none"
    /\ background_tasks' = "none"

get_context_with_fallback ==
    /\ trigger_pc = "lookup"
    /\ \E outcome \in {"found", "none", "error"} :
          IF outcome = "error"
          THEN http_exception("500", [Ran("lookup") EXCEPT !.context = outcome])
          ELSE /\ cycle' = [Ran("lookup") EXCEPT !.context = outcome]
               /\ trigger_pc' = "acquire"
               /\ UNCHANGED <<response, background_tasks>>

\* Step 1: get_context returns the context, returns None (key absent or
\* not JSON) or raises (Redis error); None ends the trigger with 404.
get_context ==
    /\ trigger_pc = "lookup"
    /\ \E outcome \in {"found", "none", "error"} :
          CASE outcome = "none" ->
                 http_exception("404", [Ran("lookup") EXCEPT !.context = outcome])
            [] outcome = "error" ->
                 http_exception("500", [Ran("lookup") EXCEPT !.context = outcome])
            [] OTHER ->
                 /\ cycle' = [Ran("lookup") EXCEPT !.context = outcome]
                 /\ trigger_pc' = "acquire"
                 /\ UNCHANGED <<response, background_tasks>>

\* Step 2: read_sensor_data returns a map or raises (AttributeError).
acquire ==
    /\ trigger_pc = "acquire"
    /\ \/ http_exception("500", Ran("acquire"))
       \/ \E sensor_data \in SensorReads :
             /\ cycle' = [Ran("acquire") EXCEPT !.sensor_data = sensor_data]
             /\ trigger_pc' = "fuse"
             /\ UNCHANGED <<response, background_tasks>>

\* Step 3: fuse_data wraps context and sensor data.
fuse_data ==
    /\ trigger_pc = "fuse"
    /\ cycle' = Ran("fuse")
    /\ trigger_pc' = "score"
    /\ UNCHANGED <<response, background_tasks>>

\* Step 4: run_inference.
score ==
    /\ trigger_pc = "score"
    /\ \E confidence \in confidences(is_defective(get_or(cycle.sensor_data, "plc", {}))) :
          cycle' = [Ran("score") EXCEPT
                       !.prediction = run_inference(cycle.sensor_data, confidence)]
    /\ trigger_pc' = "persist"
    /\ UNCHANGED <<response, background_tasks>>

\* Step 5: create_ldo stores the record and returns its id, or raises.
create_ldo ==
    /\ trigger_pc = "persist"
    /\ \/ http_exception("500", Ran("persist"))
       \/ /\ cycle' = [Ran("persist") EXCEPT !.ldo_id = <<"ldo">>]
          /\ trigger_pc' = "derive"
          /\ UNCHANGED <<response, background_tasks>>

\* The target parameters of a list of drafts.
Targets(drafts) == { drafts[k].target_parameter : k \in DOMAIN drafts }

derive_create_error_fatal ==
    /\ trigger_pc = "derive"
    /\ \E failing \in SUBSET Targets(generate_recommendations(cycle.sensor_data, {})) :
          IF failing # {}
          THEN http_exception("500", [Ran("derive") EXCEPT !.failed = failing])
          ELSE /\ cycle' = [Ran("derive") EXCEPT
                               !.recommendation_ids =
                                   generate_recommendations(cycle.sensor_data, failing)]
               /\ trigger_pc' = "upload"
               /\ UNCHANGED <<response, background_tasks>>

\* Step 6: generate_recommendations; a create that raises (the drafts in
\* `failing`) is logged inside generate_recommendations and fails nothing.
derive ==
    /\ trigger_pc = "derive"
    /\ \E failing \in SUBSET Targets(generate_recommendations(cycle.sensor_data, {})) :
          cycle' = [Ran("derive") EXCEPT
                       !.recommendation_ids =
                           generate_recommendations(cycle.sensor_data, failing),
                       !.failed = failing]
    /\ trigger_pc' = "upload"
    /\ UNCHANGED <<response, background_tasks>>

schedule_upload_inline ==
    /\ trigger_pc = "upload"
    /\ IF cycle.video
       THEN \/ http_exception("500", cycle)
            \/ /\ background_tasks' = "running"
               /\ trigger_pc' = "return"
               /\ UNCHANGED <<cycle, response>>
       ELSE /\ trigger_pc' = "return"
            /\ UNCHANGED <<cycle, response, background_tasks>>

\* Step 7: with a video, read it (which may raise) and add the upload to
\* the background tasks.
schedule_upload ==
    /\ trigger_pc = "upload"
    /\ IF cycle.video
       THEN \/ http_exception("500", cycle)
            \/ /\ background_tasks' = "scheduled"
               /\ trigger_pc' = "return"
               /\ UNCHANGED <<cycle, response>>
       ELSE /\ trigger_pc' = "return"
            /\ UNCHANGED <<cycle, response, background_tasks>>

\* return CIDResponse(status="success", ...)
return_response ==
    /\ trigger_pc = "return"
    /\ response' = "success"
    /\ trigger_pc' = "responded"
    /\ UNCHANGED <<cycle, background_tasks>>

\* The background tasks of a response start once the response is sent.
start_background_tasks ==
    /\ background_tasks = "scheduled"
    /\ trigger_pc = "responded"
    /\ background_tasks' = "running"
    /\ UNCHANGED <<trigger_pc, cycle, response>>

\* upload_video_to_data_ingestion_background: a status other than 200 and
\* every exception are logged, nothing is raised.
upload_video_to_data_ingestion_background ==
    /\ background_tasks = "running"
    /\ \E outcome \in {"uploaded", "failed"} : background_tasks' = outcome
    /\ UNCHANGED <<trigger_pc, cycle, response>>


(***************************************************************************)
(* Connection handling of the protocol drivers (ModbusProtocol,            *)
(* OPCUAProtocol) and of the server's ModbusPLCAdapter.  A client field    *)
(* is "None" or "client".  modbus_protocol.py does not compile as it       *)
(* stands (a parameter without a default follows one with a default in     *)
(* __init__); its method bodies are modelled as written.                   *)
(***************************************************************************)

\* The largest max_retries a driver is constructed with.
MaxRetries == 3

DriverClasses == {"ModbusProtocol", "OPCUAProtocol", "PROFINETProtocol"}

\* What one connection attempt may do.  ModbusTcpClient.connect() reports
\* a refusal by returning False; asyncua's Client.connect() only raises.
attempt_outcomes(class) ==
    IF class = "ModbusProtocol" THEN {"connected", "refused", "raised"}
    ELSE {"connected", "raised"}

\* __init__: no client yet, max_retries as given.
protocol_init(class, max_retries) ==
    /\ driver' = [class |-> class, max_retries |-> max_retries, client |-> "None"]
    /\ driver_ret' = NoDriverCall
    /\ UNCHANGED <<adapter, adapter_ret>>

backoff_after_every_attempt(slept, attempt, max_retries) ==
    Append(slept, 2 ^ attempt)

\* time.sleep(2 ** attempt) after every failed attempt but the last.
backoff(slept, attempt, max_retries) ==
    IF attempt < max_retries - 1 THEN Append(slept, 2 ^ attempt) ELSE slept

\* The loop `for attempt in range(self.max_retries)` from `attempt` on:
\* a success returns True at once, a failure drops the client and backs off.
RECURSIVE connect_loop(_, _, _, _, _)
connect_loop(attempt, max_retries, client, outcomes, slept) ==
    IF attempt >= max_retries
    THEN [value |-> FALSE, client |-> client, attempts |-> attempt, sleeps |-> slept]
    ELSE IF outcomes[attempt + 1] = "connected"
         THEN [value |-> TRUE, client |-> "client", attempts |-> attempt + 1, sleeps |-> slept]
         ELSE connect_loop(attempt + 1, max_retries, "None", outcomes,
                           backoff(slept, attempt, max_retries))

\* connect() of a protocol driver; outcomes[k] is what attempt k-1 would do.
protocol_connect(outcomes) ==
    /\ driver.class \in DriverClasses
    /\ LET done == connect_loop(0, driver.max_retries, driver.client, outcomes, << >>)
       IN /\ driver' = [driver EXCEPT !.client = done.client]
          /\ driver_ret' = [op |-> "connect", kind |-> "return", value |-> done.value,
                            outcomes |-> outcomes,
                            attempts |-> done.attempts, sleeps |-> done.sleeps]
    /\ UNCHANGED <<adapter, adapter_ret>>

\* Does disconnect() of this class let an exception of close() out?
\* PROFINETProtocol catches it and drops the client in a finally; the
\* other two have no try.
close_error_escapes(class) == class # "PROFINETProtocol"

\* disconnect() of a protocol driver: close the client if there is one and
\* drop it; an exception of close() leaves the method before the drop.
protocol_disconnect(close_raises) ==
    /\ driver.class \in DriverClasses
    /\ IF driver.client # "None" /\ close_raises /\ close_error_escapes(driver.class)
       THEN /\ driver' = driver
            /\ driver_ret' = [NoDriverCall EXCEPT !.op = "disconnect", !.kind = "raise"]
       ELSE /\ driver' = [driver EXCEPT !.client = "None"]
            /\ driver_ret' = [NoDriverCall EXCEPT !.op = "disconnect", !.kind = "return"]
    /\ UNCHANGED <<adapter, adapter_ret>>

\* The sensors of the driver's mapping, in the order the read loop takes them.
Mappings == <<"temperature", "pressure", "vibration">>

\* The values the read loop has put in `data` before its read number
\* failed_at raised (all of them when failed_at is 0: nothing raised).
collected(failed_at) ==
    { Mappings[k] : k \in 1..(IF failed_at = 0 THEN Len(Mappings) ELSE failed_at - 1) }

\* read_sensor_data() of a protocol driver.  Without a client (PROFINET:
\* or with one that get_connected() reports down) it calls connect() and
\* returns {} if there is still no client.  Then it reads sensor by
\* sensor; an exception ends the loop, disconnect() is called and the
\* values collected so far are returned, unless disconnect() itself
\* raises, which leaves read_sensor_data with that exception.
protocol_read_sensor_data(outcomes, link_down, failed_at, close_raises) ==
    /\ driver.class \in DriverClasses
    /\ LET reconnect == driver.client = "None"
                            \/ (driver.class = "PROFINETProtocol" /\ link_down)
           done == IF reconnect
                   THEN connect_loop(0, driver.max_retries, driver.client, outcomes, << >>)
                   ELSE [value |-> TRUE, client |-> driver.client, attempts |-> 0,
                         sleeps |-> << >>]
           usable == done.client # "None" /\ (reconnect /\ link_down => done.value)
           escaped == failed_at # 0 /\ close_raises /\ close_error_escapes(driver.class)
       IN IF ~usable
          THEN /\ driver' = [driver EXCEPT !.client = done.client]
               /\ driver_ret' = [op |-> "read", kind |-> "return", had_client |-> ~reconnect,
                                 connect_called |-> reconnect, connect_value |-> done.value,
                                 reads |-> 0, failed_at |-> 0, data |-> {}]
          ELSE /\ driver' = [driver EXCEPT
                                !.client = IF failed_at # 0 /\ ~escaped THEN "None"
                                           ELSE done.client]
               /\ driver_ret' = [op |-> "read",
                                 kind |-> IF escaped THEN "raise" ELSE "return",
                                 had_client |-> ~reconnect,
                                 connect_called |-> reconnect, connect_value |-> done.value,
                                 reads |-> IF failed_at = 0 THEN Len(Mappings) ELSE failed_at,
                                 failed_at |-> failed_at,
                                 data |-> IF escaped THEN {} ELSE collected(failed_at)]
    /\ UNCHANGED <<adapter, adapter_ret>>

\* ModbusPLCAdapter.connect(): one attempt.  "missing_host" and
\* "raised_early" leave before a client is made; "raised" and "refused"
\* leave after; only "connected" sets is_connected.
AdapterConnectOutcomes == {"missing_host", "raised_early", "raised", "refused", "connected"}

ModbusPLCAdapter_connect(outcome) ==
    /\ adapter' = [is_connected |-> adapter.is_connected \/ outcome = "connected",
                   client |-> IF outcome \in {"missing_host", "raised_early"}
                              THEN adapter.client ELSE "client"]
    /\ adapter_ret' = [op |-> "connect", value |-> outcome = "connected"]
    /\ UNCHANGED <<driver, driver_ret>>

\* ModbusPLCAdapter.disconnect(): close() inside try; is_connected is
\* cleared after it, so not when close() raises.  The client is kept.
ModbusPLCAdapter_disconnect(close_raises) ==
    /\ IF adapter.client # "None" /\ close_raises
       THEN /\ adapter' = adapter
            /\ adapter_ret' = [op |-> "disconnect", value |-> FALSE]
       ELSE /\ adapter' = [adapter EXCEPT !.is_connected = FALSE]
            /\ adapter_ret' = [op |-> "disconnect", value |-> TRUE]
    /\ UNCHANGED <<driver, driver_ret>>


(***************************************************************************)
(* The fusion service with the connection state of its adapters: startup,  *)
(* fusion cycles, and shutdown (main.py, services/fusion.py, adapters/).   *)
(***************************************************************************)

\* The adapters a deployment configures here.
Deployed == {"modbus", "opcua", "mes"}

\* startup_event: initialize() calls connect() once on every configured
\* adapter; the ones whose endpoint answers are connected and registered.
startup_event(env, up) ==
    /\ initialize(env \cap up)
    /\ configured' = env
    /\ reachable' = up
    /\ is_connected' = env \cap up
    /\ UNCHANGED <<shutdown_pos, completion_order>>

\* A trigger calls read_sensor_data while the server is serving; the
\* endpoints may have come up or gone down since the last cycle.  One
\* read_data task per registered adapter is created; connect() is called
\* on none.
read_sensor_data_call(up) ==
    /\ shutdown_pos = 0
    /\ read_sensor_data_begin
    /\ reachable' = up
    /\ completion_order' = << >>
    /\ UNCHANGED <<configured, is_connected, shutdown_pos>>

\* One read_data task finishes.  An adapter that is not connected returns
\* {} at once, without a connect().
read_data_task(i) ==
    /\ read_data(i)
    /\ data_sources[i] \notin is_connected => results'[i] = Returned({})
    /\ completion_order' = Append(completion_order, i)
    /\ UNCHANGED <<configured, reachable, is_connected, shutdown_pos>>

\* gather() hands back the results in the order of the tasks.
read_sensor_data_return ==
    /\ read_sensor_data_combine
    /\ UNCHANGED lifecycle_vars

\* One round of the loop in shutdown(): disconnect() on the next registered
\* adapter.  Nothing makes it wait for a cycle in flight.  A PLC adapter
\* whose close() raises keeps is_connected.
shutdown(close_raises) ==
    /\ fusion_pc # "constructed"
    /\ shutdown_pos < Len(data_sources)
    /\ shutdown_pos' = shutdown_pos + 1
    /\ is_connected' =
          IF close_raises /\ data_sources[shutdown_pos + 1] \in {"modbus", "opcua"}
          THEN is_connected
          ELSE is_connected \ {data_sources[shutdown_pos + 1]}
    /\ UNCHANGED <<configured, reachable, completion_order, fusion_vars, vars>>


(***************************************************************************)
(* scan_network from a subnet string to its probe tasks                    *)
(* (device_discovery.py _generate_ip_range, scan_network).  A subnet is    *)
(* a string ip_network rejects, or a network with host_bits host bits; an  *)
(* address is the number of the host in its network.                       *)
(***************************************************************************)

\* The most host bits of a subnet handed to a scan.
MaxHostBits == 9

\* [:254]
max_hosts == 254

Subnets ==
    {[valid |-> FALSE, host_bits |-> 0]}
        \cup { [valid |-> TRUE, host_bits |-> b] : b \in 0..MaxHostBits }

\* The names a protocols list may hold; scan_network knows the first three.
ProtocolNames == {"modbus", "opcua", "http", "ethernetip"}

\* len(list(network.hosts())): every address but the network and broadcast
\* address, both addresses of a /31, the one address of a /32.
hosts(network) ==
    IF network.host_bits = 0 THEN 1
    ELSE IF network.host_bits = 1 THEN 2
         ELSE 2 ^ network.host_bits - 2

generate_ip_range_uncapped(subnet) ==
    IF subnet.valid THEN [k \in 1..hosts(subnet) |-> k] ELSE << >>

\* _generate_ip_range: the first 254 hosts; [] when ip_network raises
\* ValueError.
generate_ip_range(subnet) ==
    IF subnet.valid
    THEN [k \in 1..Minimum(hosts(subnet), max_hosts) |-> k]
    ELSE << >>

\* scan_network up to gather; with no task gather returns [] at once and
\* scan_network returns [] (<<[]>> here, << >> while probes are awaited).
scan_network_launch(subnet, protocols) ==
    LET ips == generate_ip_range(subnet)
        tasks == create_scan_tasks(ips, protocols)
    IN scan_request' =
          [subnet |-> subnet, protocols |-> protocols, called |-> TRUE, ips |-> ips,
           scan_tasks |-> tasks,
           returned |-> IF tasks = << >> THEN << found_devices(tasks) >> ELSE << >>]


Next ==
    \/ Tick /\ UNCHANGED <<fusion_vars, more_vars>>
    \/ \E d \in Drafts : create_recommendation(d.device_id, d) /\ UNCHANGED <<fusion_vars, more_vars>>
    \/ \E c \in Callers, r \in CallIds : approve_select(c, r) /\ UNCHANGED <<fusion_vars, more_vars>>
    \/ \E c \in Callers : approve_update(c) /\ UNCHANGED <<fusion_vars, more_vars>>
    \/ \E c \in Callers, r \in CallIds : reject_recommendation(c, r) /\ UNCHANGED <<fusion_vars, more_vars>>
    \/ \E r \in CallIds, s \in ExecutionStatuses : mark_executed(r, s) /\ UNCHANGED <<fusion_vars, more_vars>>
    \/ expire_old_recommendations /\ UNCHANGED <<fusion_vars, more_vars>>

Spec == Init /\ [][Next]_<<vars, fusion_vars, more_vars>>

\* The acquisition stage on its own: startup, then fusion cycles.
FusionNext ==
    \/ \E connected \in SUBSET SourceNames : initialize(connected) /\ UNCHANGED more_vars
    \/ read_sensor_data_begin /\ UNCHANGED more_vars
    \/ \E i \in DOMAIN results : read_data(i) /\ UNCHANGED more_vars
    \/ read_sensor_data_combine /\ UNCHANGED more_vars

FusionSpec == Init /\ [][FusionNext]_<<vars, fusion_vars, more_vars>>

\* The discovery service on its own: scans, one after another.
DiscoveryNext ==
    \/ \E ips \in IpRanges, protocols \in SUBSET {"modbus", "opcua", "http"} :
          scan_network_begin(ips, protocols) /\ UNCHANGED outside_discovery
    \/ \E i \in DOMAIN scan_tasks : scan_modbus(i) /\ UNCHANGED outside_discovery
    \/ \E i \in DOMAIN scan_tasks : scan_opcua(i) /\ UNCHANGED outside_discovery
    \/ \E i \in DOMAIN scan_tasks : scan_http(i) /\ UNCHANGED outside_discovery
    \/ scan_network_return /\ UNCHANGED outside_discovery

DiscoverySpec == Init /\ [][DiscoveryNext]_<<vars, fusion_vars, more_vars>>

\* One trigger after another through the pipeline.
TriggerNext ==
    \/ \E video \in BOOLEAN : receive_cid(video) /\ UNCHANGED outside_trigger
    \/ get_context /\ UNCHANGED outside_trigger
    \/ acquire /\ UNCHANGED outside_trigger
    \/ fuse_data /\ UNCHANGED outside_trigger
    \/ score /\ UNCHANGED outside_trigger
    \/ create_ldo /\ UNCHANGED outside_trigger
    \/ derive /\ UNCHANGED outside_trigger
    \/ schedule_upload /\ UNCHANGED outside_trigger
    \/ return_response /\ UNCHANGED outside_trigger
    \/ start_background_tasks /\ UNCHANGED outside_trigger
    \/ upload_video_to_data_ingestion_background /\ UNCHANGED outside_trigger

TriggerSpec == Init /\ [][TriggerNext]_<<vars, fusion_vars, more_vars>>

\* Only a PROFINET driver asks its client whether the link is down.
get_connected_down == IF driver.class = "PROFINETProtocol" THEN BOOLEAN ELSE {FALSE}

\* What the attempts of the connect() inside a read would do; every choice
\* when the read calls connect(), one arbitrary choice when it does not.
reconnect_outcomes(link_down) ==
    IF driver.client = "None" \/ link_down
    THEN [1..MaxRetries -> attempt_outcomes(driver.class)]
    ELSE {[k \in 1..MaxRetries |-> "connected"]}

\* A protocol driver and a PLC adapter on their own: construction, then
\* connects and disconnects in any order.
DriverNext ==
    \/ \E class \in DriverClasses, max_retries \in 0..MaxRetries :
          protocol_init(class, max_retries) /\ UNCHANGED outside_driver
    \/ \E outcomes \in [1..MaxRetries -> attempt_outcomes(driver.class)] :
          protocol_connect(outcomes) /\ UNCHANGED outside_driver
    \/ \E close_raises \in BOOLEAN : protocol_disconnect(close_raises) /\ UNCHANGED outside_driver
    \/ \E link_down \in get_connected_down, failed_at \in 0..Len(Mappings),
          close_raises \in BOOLEAN :
          \E outcomes \in reconnect_outcomes(link_down) :
              protocol_read_sensor_data(outcomes, link_down, failed_at, close_raises)
                 /\ UNCHANGED outside_driver
    \/ \E outcome \in AdapterConnectOutcomes :
          ModbusPLCAdapter_connect(outcome) /\ UNCHANGED outside_driver
    \/ \E close_raises \in BOOLEAN :
          ModbusPLCAdapter_disconnect(close_raises) /\ UNCHANGED outside_driver

DriverSpec == Init /\ [][DriverNext]_<<vars, fusion_vars, more_vars>>

\* The fusion service from startup to shutdown.
LifecycleNext ==
    \/ \E env \in SUBSET Deployed, up \in SUBSET Deployed :
          startup_event(env, up) /\ UNCHANGED outside_lifecycle
    \/ \E up \in SUBSET Deployed : read_sensor_data_call(up) /\ UNCHANGED outside_lifecycle
    \/ \E i \in DOMAIN results : read_data_task(i) /\ UNCHANGED outside_lifecycle
    \/ read_sensor_data_return /\ UNCHANGED outside_lifecycle
    \/ \E close_raises \in BOOLEAN : shutdown(close_raises) /\ UNCHANGED outside_lifecycle

LifecycleSpec == Init /\ [][LifecycleNext]_<<vars, fusion_vars, more_vars>>

\* Scans of one subnet after another, up to the launch of their probes.
RangeNext ==
    \E subnet \in Subnets, protocols \in SUBSET ProtocolNames :
        scan_network_launch(subnet, protocols) /\ UNCHANGED outside_range

RangeSpec == Init /\ [][RangeNext]_<<vars, fusion_vars, more_vars>>

TypeOK ==
    /\ now \in 0..MaxTime
    /\ Known \subseteq RecIds
    /\ Len(ml_action_audit) <= MaxAudit
    /\ \A c \in Callers : pc[c] \in {"idle", "approve_update"}

\* ======================================================== properties
StatusOf(r) == ml_recommendations[r].status

IsExpired(r) ==
    /\ ml_recommendations[r].expires_at # NULL
    /\ ml_recommendations[r].expires_at[1] < now

\* Row r was created while an enabled safety limit existed for its
\* parameter, with a recommended value outside [min_value, max_value].
CreatedOutsideLimits(r) ==
    \E l \in fetch_limits(ml_recommendations[r].device_id,
                          ml_recommendations[r].target_parameter) :
        \/ ml_recommendations[r].recommended_value < l.min_value
        \/ ml_recommendations[r].recommended_value > l.max_value

ApprovedAuditRows(r) ==
    { i \in 1..Len(ml_action_audit) :
        /\ ml_action_audit[i].recommendation_id = r
        /\ ml_action_audit[i].action = "approved" }

LegalTransitions ==
    { <<"pending", "approved">>, <<"pending", "rejected">>,
      <<"pending", "expired">>, <<"approved", "executed">> }

\* C1: a recommendation becomes `executed` only from `approved`; mark_executed
\* on a pending, rejected, expired or unknown recommendation never produces
\* `executed`.
C1_ExecutedOnlyFromApproved ==
    [][\A r \in Known :
          (ml_recommendations'[r].status = "executed" /\ StatusOf(r) # "executed")
              => StatusOf(r) = "approved"]_vars

\* C2 (as stated): every approve of a recommendation created outside its
\* enabled safety limit fails with UnsafeValue, whatever the clock and the
\* status, and changes nothing.
C2_UnsafeAlwaysUnsafeValue ==
    [][\A c \in Callers, r \in Known :
          (approve_select(c, r) /\ CreatedOutsideLimits(r))
              => /\ ret' = Failure(c, "approve", r, UnsafeValue)
                 /\ UNCHANGED ml_recommendations]_vars

\* C2 (amended): a recommendation created outside its enabled safety limit
\* has is_within_limits false, and every approve of it fails and writes
\* nothing: with UnsafeValue while it is pending and unexpired, with Expired
\* when pending and expired, with InvalidState when no longer pending; no
\* approve ever reaches its UPDATE for such a row.
C2_UnsafeNeverApproved ==
    /\ [](\A r \in Known :
            CreatedOutsideLimits(r) => ~ml_recommendations[r].is_within_limits)
    /\ [][\A c \in Callers, r \in Known :
            CreatedOutsideLimits(r) =>
              /\ approve_select(c, r) =>
                   /\ ret' = Failure(c, "approve", r,
                                IF StatusOf(r) # "pending" THEN Already(StatusOf(r))
                                ELSE IF IsExpired(r) THEN Expired
                                ELSE UnsafeValue)
                   /\ pc'[c] = "idle"
                   /\ UNCHANGED <<ml_recommendations, ml_action_audit>>
              /\ approve_update(c) => rec_id_arg[c] # r]_vars

\* C2 witness: an approve of a pending, unexpired, out-of-range
\* recommendation has just failed with UnsafeValue.
C2_Witness ==
    /\ ret.op = "approve"
    /\ ret.error = UnsafeValue
    /\ ret.rec_id \in Known
    /\ CreatedOutsideLimits(ret.rec_id)
    /\ StatusOf(ret.rec_id) = "pending"
    /\ ~IsExpired(ret.rec_id)

\* C4: concurrent approves of one recommendation: exactly one succeeds, so
\* exactly one `approved` audit row is ever written for a recommendation.
C4_OneApprovedAuditRow ==
    \A r \in Known : Cardinality(ApprovedAuditRows(r)) <= 1

\* C5: approve, reject and the expiry sweep never overwrite a status that
\* another call has already moved out of `pending`.
C5_NoOverwriteOfDecidedStatus ==
    [][\A r \in Known :
          (StatusOf(r) # "pending" /\ ml_recommendations'[r].status # StatusOf(r))
              => ml_recommendations'[r].status = "executed"]_vars

\* C6: every status change is pending->approved, pending->rejected,
\* pending->expired or approved->executed.
C6_OnlyLegalTransitions ==
    [][\A r \in Known :
          ml_recommendations'[r].status # StatusOf(r)
              => <<StatusOf(r), ml_recommendations'[r].status>> \in LegalTransitions]_vars

\* C7: approve fails with NotFound on an unknown id and with InvalidState on
\* a recommendation that is not pending, whatever its expiry time and
\* is_within_limits are, and then writes nothing.
C7_ApproveNotFoundOrInvalidState ==
    [][\A c \in Callers, r \in CallIds :
          (approve_select(c, r) /\ (r \notin Known \/ StatusOf(r) # "pending"))
              => /\ ret' = Failure(c, "approve", r,
                              IF r \notin Known THEN NotFound ELSE Already(StatusOf(r)))
                 /\ ret'.error \in InvalidState \cup {NotFound}
                 /\ pc'[c] = "idle"
                 /\ UNCHANGED <<ml_recommendations, ml_action_audit>>]_vars

\* C7 witness: an approve has just failed with InvalidState on a decided
\* recommendation that is also expired and outside its limits.
C7_Witness ==
    /\ ret.op = "approve"
    /\ ret.rec_id \in Known
    /\ StatusOf(ret.rec_id) \in {"rejected", "executed", "expired"}
    /\ ret.error = Already(StatusOf(ret.rec_id))
    /\ IsExpired(ret.rec_id)
    /\ ~ml_recommendations[ret.rec_id].is_within_limits

\* C8: approve of a pending recommendation whose expires_at is in the past
\* fails with Expired and leaves it pending.
C8_ApproveExpiredFails ==
    [][\A c \in Callers, r \in Known :
          (approve_select(c, r) /\ StatusOf(r) = "pending" /\ IsExpired(r))
              => /\ ret' = Failure(c, "approve", r, Expired)
                 /\ pc'[c] = "idle"
                 /\ UNCHANGED <<ml_recommendations, ml_action_audit>>]_vars

\* C8 witness: an approve has just failed with Expired on a recommendation
\* that is within its limits and still pending (no sweep has run).
C8_Witness ==
    /\ ret.op = "approve"
    /\ ret.error = Expired
    /\ ret.rec_id \in Known
    /\ StatusOf(ret.rec_id) = "pending"
    /\ IsExpired(ret.rec_id)
    /\ ml_recommendations[ret.rec_id].is_within_limits

\* C9: reject of a pending recommendation whose expires_at is in the past
\* fails with Expired and does not move it to `rejected`.
C9_RejectExpiredFails ==
    [][\A c \in Callers, r \in Known :
          (reject_recommendation(c, r) /\ StatusOf(r) = "pending" /\ IsExpired(r))
              => /\ ret' = Failure(c, "reject", r, Expired)
                 /\ ml_recommendations'[r].status = "pending"]_vars

\* C10: reject fails with NotFound on an unknown id and with InvalidState on
\* a recommendation that is not pending; it reports success only when it
\* moved a pending recommendation to `rejected`.
C10_RejectResult ==
    [][\A c \in Callers, r \in CallIds :
          reject_recommendation(c, r)
              => /\ r \notin Known => ret' = Failure(c, "reject", r, NotFound)
                 /\ (r \in Known /\ StatusOf(r) # "pending")
                        => ret' = Failure(c, "reject", r, Already(StatusOf(r)))
                 /\ ret'.success
                        => /\ r \in Known
                           /\ StatusOf(r) = "pending"
                           /\ ml_recommendations'[r].status = "rejected"]_vars

\* The pending rows whose expires_at has passed.
StaleRows == { r \in Known : StatusOf(r) = "pending" /\ IsExpired(r) }

\* The actions audited for row r, oldest first.
AuditedActions(r) ==
    LET OfRow(e) == e.recommendation_id = r
        rows == SelectSeq(ml_action_audit, OfRow)
    IN [i \in 1..Len(rows) |-> rows[i].action]

\* C11: an approve or reject that returns a failure leaves the stored
\* recommendations and the audit trail exactly as they were.
C11_FailureHasNoSideEffects ==
    [][\A c \in Callers, r \in CallIds :
          (/\ ret' = Failure(c, ret'.op, r, ret'.error)
           /\ \/ approve_select(c, r) /\ pc'[c] = "idle"
              \/ reject_recommendation(c, r))
              => UNCHANGED <<ml_recommendations, ml_action_audit>>]_vars

\* C11 witness: an approve has just failed with Expired on a row that is
\* still pending, carries no approver and has only its `created` audit row.
C11_Witness ==
    /\ ret.op = "approve"
    /\ ~ret.success
    /\ ret.error = Expired
    /\ ret.rec_id \in Known
    /\ StatusOf(ret.rec_id) = "pending"
    /\ ml_recommendations[ret.rec_id].approved_by = NULL
    /\ AuditedActions(ret.rec_id) = <<"created">>

\* C12: the expiry sweep moves to `expired` exactly the pending rows whose
\* expires_at has passed, returns their number, and changes no other row and
\* no audit row, also while approve calls are in flight.
C12_ExpireMovesExactlyStale ==
    [][expire_old_recommendations
          => /\ DOMAIN ml_recommendations' = Known
             /\ \A r \in Known :
                    ml_recommendations'[r] =
                        IF r \in StaleRows
                        THEN [ml_recommendations[r] EXCEPT !.status = "expired"]
                        ELSE ml_recommendations[r]
             /\ ret' = Count(Cardinality(StaleRows))
             /\ UNCHANGED ml_action_audit]_vars

\* C12 witness: a sweep has just expired one row while an approve of that
\* row was between its SELECT and its UPDATE.
C12_Witness ==
    /\ ret.op = "expire"
    /\ ret.expired_count = 1
    /\ \E c \in Callers :
          /\ pc[c] = "approve_update"
          /\ rec_id_arg[c] \in Known
          /\ StatusOf(rec_id_arg[c]) = "expired"

\* C13: a sweep that finds no pending-and-expired row returns 0 and changes
\* no row and no audit row; after any sweep no pending-and-expired row is
\* left, so an immediately following sweep is such a no-op.
C13_ExpireIdempotent ==
    [][expire_old_recommendations
          => /\ StaleRows = {} =>
                  /\ ret' = Count(0)
                  /\ UNCHANGED <<ml_recommendations, ml_action_audit>>
             /\ \A r \in Known :
                    ~(/\ ml_recommendations'[r].status = "pending"
                      /\ ml_recommendations'[r].expires_at # NULL
                      /\ ml_recommendations'[r].expires_at[1] < now')]_vars

\* C13 witness: a sweep has just returned 0 although an earlier sweep had
\* expired a row.
C13_Witness ==
    /\ ret = Count(0)
    /\ \E r \in Known : StatusOf(r) = "expired"

\* C14: create for a parameter without an enabled safety limit returns a new
\* id and stores a pending row with NULL limits and expires_at = creation
\* time + window, and appends exactly one `created` audit row.
C14_CreateWithoutLimit ==
    [][\A d \in Drafts :
          (/\ create_recommendation(d.device_id, d)
           /\ fetch_limits(d.device_id, d.target_parameter) = {}
           /\ now \notin Known)
              => /\ ret' = Success("system", "create", now, "pending")
                 /\ DOMAIN ml_recommendations' = Known \cup {now}
                 /\ \A r \in Known : ml_recommendations'[r] = ml_recommendations[r]
                 /\ ml_recommendations'[now].status = "pending"
                 /\ ml_recommendations'[now].min_safe_value = NULL
                 /\ ml_recommendations'[now].max_safe_value = NULL
                 /\ ml_recommendations'[now].max_rate_of_change = NULL
                 /\ ml_recommendations'[now].expires_at = <<now + default_expiration_minutes>>
                 /\ ml_action_audit' =
                        Append(ml_action_audit, AuditRow(now, "created", "system"))]_vars

\* C14 witness: a create without an enabled limit has just returned.
C14_Witness ==
    /\ ret.op = "create"
    /\ ret.success
    /\ ret.rec_id \in Known
    /\ fetch_limits(ml_recommendations[ret.rec_id].device_id,
                    ml_recommendations[ret.rec_id].target_parameter) = {}
    /\ ml_recommendations[ret.rec_id].min_safe_value = NULL
    /\ ml_action_audit[Len(ml_action_audit)] = AuditRow(ret.rec_id, "created", "system")

\* C15: the audit rows of every recommendation are exactly the transitions
\* it has taken, in order: `created`, then at most one of `approved` and
\* `rejected`, and `executed` only after `approved`; no audit row names an
\* unknown id or a transition that did not happen.
C15_AuditMatchesTransitions ==
    /\ \A i \in 1..Len(ml_action_audit) : ml_action_audit[i].recommendation_id \in Known
    /\ \A r \in Known :
          AuditedActions(r) =
              CASE StatusOf(r) = "approved" -> <<"created", "approved">>
                [] StatusOf(r) = "rejected" -> <<"created", "rejected">>
                [] StatusOf(r) = "executed" -> <<"created", "approved", "executed">>
                [] OTHER -> <<"created">>

C17_CreateReturnsFreshId ==
    [][\A d \in Drafts :
          (create_recommendation(d.device_id, d) /\ ret'.success)
              => /\ ret'.rec_id \notin Known
                 /\ ret'.rec_id \in DOMAIN ml_recommendations'
                 /\ \A r \in Known : ml_recommendations'[r] = ml_recommendations[r]]_vars

\* C17 witness: a second create at the clock reading of a stored
\* recommendation has just raised and the stored row is still there.
C17_Witness ==
    /\ ret.op = "create"
    /\ ~ret.success
    /\ ret.rec_id = now
    /\ ret.rec_id \in Known

\* The category under which read_sensor_data files a data source.
CategoryOf(source_name) ==
    IF source_name \in {"modbus", "opcua"} THEN "plc" ELSE source_name

\* The dict a returned map holds for a category, empty when it has none.
Lookup(map, category) == UNION { p[2] : p \in { q \in map : q[1] = category } }

\* The reads of this cycle that returned a non-empty dict.
Succeeded == { i \in DOMAIN results : results[i].kind = "ok" /\ results[i].data # {} }

\* C18: when at least one read raises and at least one other returns a
\* non-empty result, read_sensor_data returns categorized data that holds
\* every field of every read that succeeded (a field two PLC adapters both
\* report carries the later adapter's value) and nothing else.
C18_PartialFailureIsolation ==
    (/\ fusion_pc = "done"
     /\ \E i \in DOMAIN results : results[i] = Raised
     /\ Succeeded # {})
        => /\ acquired.kind = "return"
           /\ \A i \in Succeeded : \A p \in results[i].data :
                 \/ p \in Lookup(acquired.data, CategoryOf(data_sources[i]))
                 \/ \E j \in Succeeded :
                       /\ j > i
                       /\ CategoryOf(data_sources[j]) = CategoryOf(data_sources[i])
                       /\ p[1] \in Keys(results[j].data)
                       /\ p[1] \in Keys(Lookup(acquired.data, CategoryOf(data_sources[i])))
           /\ \A c \in acquired.data : \A p \in c[2] :
                 \E i \in Succeeded :
                    CategoryOf(data_sources[i]) = c[1] /\ p \in results[i].data

\* C18 witness: a cycle has ended in which the first read raised and two
\* later reads of different categories succeeded, and both are returned.
C18_Witness ==
    /\ fusion_pc = "done"
    /\ Len(data_sources) >= 3
    /\ results[1] = Raised
    /\ \E i, j \in Succeeded :
          /\ CategoryOf(data_sources[i]) # CategoryOf(data_sources[j])
          /\ Lookup(acquired.data, CategoryOf(data_sources[i])) = results[i].data
          /\ Lookup(acquired.data, CategoryOf(data_sources[j])) = results[j].data
    /\ acquired.kind = "return"

\* C19: a cycle in which every read returned empty (with any set of data
\* sources, the empty one included) returns the mock fallback data, never
\* an empty map.
C19_AllEmptyGivesMockFallback ==
    (/\ fusion_pc = "done"
     /\ \A i \in DOMAIN results : results[i] = Returned({}))
        => /\ acquired.kind = "return"
           /\ acquired.data # {}

\* C20: read_sensor_data never raises to its caller, whatever the reads did.
C20_AcquireNeverRaises == acquired.kind # "raise"

\* The entries of the returned list for one address and protocol name.
DevicesAt(ip, protocol) ==
    { k \in DOMAIN devices : devices[k].ip = ip /\ devices[k].protocol = protocol }

\* C21: a finished scan holds exactly one modbus_tcp device for every
\* address whose Modbus probe connected and none for an address whose probe
\* timed out, was refused or errored, whatever the other probes did.
C21_ScanModbus ==
    scan_pc = "done" =>
        /\ \A i \in DOMAIN scan_tasks :
              scan_tasks[i].protocol = "modbus" =>
                  Cardinality(DevicesAt(scan_tasks[i].ip, "modbus_tcp"))
                      = IF scan_tasks[i].outcome = "connected" THEN 1 ELSE 0
        /\ \A k \in DOMAIN devices :
              devices[k].protocol = "modbus_tcp" =>
                  \E i \in DOMAIN scan_tasks :
                      /\ scan_tasks[i].protocol = "modbus"
                      /\ scan_tasks[i].ip = devices[k].ip

\* C21 witness: a scan of two addresses has ended in which the Modbus probe
\* of the first address was refused and that of the second connected, and
\* the result is the one device of the second address.
C21_Witness ==
    /\ scan_pc = "done"
    /\ Len(scan_tasks) = 2
    /\ scan_tasks[1].protocol = "modbus" /\ scan_tasks[1].outcome = "refused"
    /\ scan_tasks[2].protocol = "modbus" /\ scan_tasks[2].outcome = "connected"
    /\ Len(devices) = 1
    /\ devices[1].ip = scan_tasks[2].ip
    /\ devices[1].protocol = "modbus_tcp"

\* The protocol name a probe of a requested protocol reports.
ReportedProtocol(protocol) == IF protocol = "modbus" THEN "modbus_tcp" ELSE protocol

\* C22: every probe of every requested protocol whose connection succeeded
\* has a device in the scan result, with address, port, protocol, vendor,
\* model, device type and recommended template.
C22_ConnectedProbeYieldsDevice ==
    scan_pc = "done" =>
        \A i \in DOMAIN scan_tasks :
            scan_tasks[i].outcome = "connected" =>
                \E k \in DOMAIN devices :
                    /\ devices[k].ip = scan_tasks[i].ip
                    /\ devices[k].protocol = ReportedProtocol(scan_tasks[i].protocol)
                    /\ DOMAIN devices[k] = {"ip", "port", "protocol", "vendor", "model",
                                            "device_type", "recommended_template"}

\* a is an initial part of b.
IsPrefix(a, b) == Len(a) <= Len(b) /\ \A i \in DOMAIN a : a[i] = b[i]

\* C23: the stages a trigger has run are always an initial part of lookup,
\* acquire, fuse, score, persist, derive, each run after the one before it;
\* the upload runs only once the caller has its success response, and no
\* step of the upload, failing or not, changes that response.
C23_StagesInOrderUploadDeferred ==
    /\ [](/\ IsPrefix(cycle.stage_log, Pipeline)
          /\ background_tasks \in {"running", "uploaded", "failed"}
                => response = "success" /\ cycle.stage_log = Pipeline)
    /\ [][(start_background_tasks \/ upload_video_to_data_ingestion_background)
              => response = "success" /\ response' = response]_trigger_vars

\* C23 witness: a trigger with a video has run all six stages, was answered
\* with success, and its upload has failed since.
C23_Witness ==
    /\ cycle.video
    /\ cycle.stage_log = Pipeline
    /\ response = "success"
    /\ background_tasks = "failed"

\* C24: a trigger whose context lookup found nothing has ended with the
\* not-found answer, has run no stage but the lookup, has stored no record
\* and no recommendation, and has no upload.
C24_ContextMissIsFatal ==
    cycle.context = "none" =>
        /\ trigger_pc = "responded"
        /\ response = "404"
        /\ cycle.stage_log = <<"lookup">>
        /\ cycle.ldo_id = << >>
        /\ cycle.recommendation_ids = << >>
        /\ background_tasks = "none"

\* C24 witness: a trigger that came with a video has ended on a lookup miss.
C24_Witness ==
    /\ cycle.context = "none"
    /\ cycle.video
    /\ response = "404"

\* C25: derive-recommendations on a PLC temperature of 95 yields a
\* temperature recommendation with recommended value 75, priority 1 and
\* action type adjust_temperature.
C25_Temperature95 ==
    (/\ "derive" \in { cycle.stage_log[i] : i \in DOMAIN cycle.stage_log }
     /\ get(get_or(cycle.sensor_data, "plc", {}), "temperature") = {95})
        => \E i \in DOMAIN rule_drafts(get_or(cycle.sensor_data, "plc", {})) :
              LET d == rule_drafts(get_or(cycle.sensor_data, "plc", {}))[i]
              IN /\ d.target_parameter = "temperature"
                 /\ d.action_type = "adjust_temperature"
                 /\ d.recommended_value = 75
                 /\ d.priority = 1
\* C26: disconnect() never raises and is idempotent: on a driver or adapter
\* that is already disconnected it changes nothing, and on a connected one
\* it leaves it disconnected (no client held, is_connected false) even when
\* closing the underlying client fails.
C26_DisconnectIdempotentNeverThrows ==
    [][/\ (\E close_raises \in BOOLEAN : protocol_disconnect(close_raises))
            => /\ driver_ret'.kind = "return"
               /\ driver'.client = "None"
               /\ (driver.client = "None" => driver' = driver)
       /\ (\E close_raises \in BOOLEAN : ModbusPLCAdapter_disconnect(close_raises))
            => /\ ~adapter'.is_connected
               /\ (~adapter.is_connected => adapter' = adapter)]_driver_vars

\* The place of a data source among the tasks of the cycle, 0 if it has none.
TaskOf(source_name) ==
    IF \E i \in DOMAIN data_sources : data_sources[i] = source_name
    THEN CHOOSE i \in DOMAIN data_sources : data_sources[i] = source_name
    ELSE 0

\* C27: the returned map follows the order of the adapters, not the order
\* in which their reads finish: when two PLC adapters both return a field,
\* the map carries the value of the later adapter in iteration order, and
\* of that adapter only, whichever of the two reads finished first.
C27_MergeFollowsIterationOrder ==
    fusion_pc = "done"
        => \A i, j \in Succeeded :
              (/\ i < j
               /\ CategoryOf(data_sources[i]) = "plc"
               /\ CategoryOf(data_sources[j]) = "plc")
                 => /\ acquired.kind = "return"
                    /\ \A p \in results[j].data : p \in Lookup(acquired.data, "plc")
                    /\ \A p \in results[i].data :
                          p[1] \in Keys(results[j].data) => p \notin Lookup(acquired.data, "plc")

\* C27 witness: modbus and opcua both returned a temperature, the opcua
\* read finished before the modbus read, and the map has opcua's value.
C27_Witness ==
    /\ fusion_pc = "done"
    /\ data_sources = <<"modbus", "opcua">>
    /\ completion_order = <<2, 1>>
    /\ <<"temperature", "modbus">> \in results[1].data
    /\ <<"temperature", "opcua">> \in results[2].data
    /\ acquired.kind = "return"
    /\ <<"temperature", "opcua">> \in Lookup(acquired.data, "plc")

C29_DownAdapterIsReadAgain ==
    (fusion_pc = "gather" /\ shutdown_pos = 0)
        => \A n \in configured \cap reachable :
              /\ TaskOf(n) # 0
              /\ n \in is_connected

\* The attempts of the last connect() that would connect, counted from 1.
WouldConnect ==
    { k \in 1..driver.max_retries : driver_ret.outcomes[k] = "connected" }

\* C30: a driver's connect() makes at most max_retries attempts and stops
\* at the first that connects (returning True, else False after
\* max_retries attempts); it has slept 2^k seconds after each failed
\* attempt k (from 0) that another attempt followed, and not after the
\* attempt that used up max_retries.
C30_ConnectRetriesWithBackoff ==
    driver_ret.op = "connect"
        => /\ driver_ret.attempts <= driver.max_retries
           /\ driver_ret.value = (WouldConnect # {})
           /\ driver_ret.value =>
                 /\ driver_ret.attempts \in WouldConnect
                 /\ \A k \in WouldConnect : driver_ret.attempts <= k
                 /\ Len(driver_ret.sleeps) = driver_ret.attempts - 1
           /\ ~driver_ret.value =>
                 /\ driver_ret.attempts = driver.max_retries
                 /\ Len(driver_ret.sleeps) = Maximum(driver.max_retries - 1, 0)
           /\ \A k \in DOMAIN driver_ret.sleeps : driver_ret.sleeps[k] = 2 ^ (k - 1)

\* C30 witness: a connect() with max_retries 3 has failed on every attempt
\* after sleeping 1 and then 2 seconds.
C30_Witness ==
    /\ driver.max_retries = 3
    /\ driver_ret.op = "connect"
    /\ ~driver_ret.value
    /\ driver_ret.attempts = 3
    /\ driver_ret.sleeps = <<1, 2>>

\* DataSourceAdapter.health_check: the adapter's is_connected.
health_check == adapter.is_connected

\* C31: whenever connect() has returned False, the adapter is disconnected
\* afterwards (health_check is false, the driver holds no client),
\* whatever its state was before the call.
C31_FailedConnectLeavesDisconnected ==
    /\ (adapter_ret.op = "connect" /\ ~adapter_ret.value) => ~health_check
    /\ (driver_ret.op = "connect" /\ ~driver_ret.value) => driver.client = "None"

\* C32: a scan probes at most 254 addresses of its range and launches at
\* most 254 probe tasks per requested protocol; an invalid range gives no
\* probe and an empty result.
C32_AtMost254Hosts ==
    scan_request.called
        => /\ Len(scan_request.ips) <= 254
           /\ Len(scan_request.scan_tasks) <= 254 * Cardinality(scan_request.protocols)
           /\ ~scan_request.subnet.valid
                 => /\ scan_request.scan_tasks = << >>
                    /\ scan_request.returned = << << >> >>

\* C32 witness: a range of 510 hosts was scanned for all three protocols:
\* 254 addresses, 762 probes.
C32_Witness ==
    /\ scan_request.called
    /\ hosts(scan_request.subnet) = 510
    /\ scan_request.protocols = {"modbus", "opcua", "http"}
    /\ Len(scan_request.ips) = 254
    /\ Len(scan_request.scan_tasks) = 762

\* C35: in every state a recommendation that is approved or executed is
\* flagged within limits, and lies between its stored safe minimum and
\* maximum when it has both.
C35_ApprovedOrExecutedIsSafe ==
    \A r \in Known :
        ml_recommendations[r].status \in {"approved", "executed"}
            => /\ ml_recommendations[r].is_within_limits
               /\ (/\ ml_recommendations[r].min_safe_value # NULL
                   /\ ml_recommendations[r].max_safe_value # NULL)
                     => /\ ml_recommendations[r].min_safe_value[1]
                              <= ml_recommendations[r].recommended_value
                        /\ ml_recommendations[r].recommended_value
                              <= ml_recommendations[r].max_safe_value[1]

\* C36: at every clock value a pending recommendation is listed by
\* get_pending_recommendations exactly when an approve of it now would not
\* fail as expired.
C36_ApproveAndListAgreeOnExpiry ==
    \A r \in Known :
        ml_recommendations[r].status = "pending"
            => (r \in pending_rows(NULL)
                    <=> approve_check(TRUE, ml_recommendations[r], now) # Expired)

\* The rules that handed a draft to create_recommendation in this trigger,
\* by target parameter: the drafts stored and the drafts whose create raised.
Emitted == Targets(cycle.recommendation_ids) \cup cycle.failed

\* The PLC dict of the fused record of this trigger.
PlcOf(sensor_data) == get_or(sensor_data, "plc", {})

\* C33: a rule emits a draft exactly when its PLC parameter is present and
\* out of range (temperature > 85, vibration > 4, pressure < 85, cycle time
\* > 28), a present 0 included; what another rule does changes nothing.
C33_DraftIffPresentAndOutOfRange ==
    trigger_pc \in {"upload", "return", "responded"} /\ Len(cycle.stage_log) = Len(Pipeline)
        => LET plc_data == PlcOf(cycle.sensor_data)
           IN /\ "temperature" \in Emitted <=> \E v \in get(plc_data, "temperature") : v > 85
              /\ "rpm" \in Emitted <=> \E v \in get(plc_data, "vibration") : v > 4
              /\ "pressure" \in Emitted <=> \E v \in get(plc_data, "pressure") : v < 85
              /\ "cycle_time" \in Emitted <=> \E v \in get(plc_data, "cycle_time") : v > 28

\* C34: score is deterministic (every call on the same record gives the
\* same result and confidence), and the result is "defective" exactly when
\* a PLC reading that is present has temperature > 90, vibration > 5,
\* pressure < 80 or cycle time > 30.
C34_ScorerDeterministicThresholds ==
    [][score =>
          LET plc_data == PlcOf(cycle.sensor_data)
          IN /\ \A c1, c2 \in confidences(is_defective(plc_data)) :
                   run_inference(cycle.sensor_data, c1) = run_inference(cycle.sensor_data, c2)
             /\ cycle'.prediction[1].result = "defective"
                   <=> \/ \E v \in get(plc_data, "temperature") : v > 90
                       \/ \E v \in get(plc_data, "vibration") : v > 5
                       \/ \E v \in get(plc_data, "pressure") : v < 80
                       \/ \E v \in get(plc_data, "cycle_time") : v > 30]_trigger_vars

\* C37: once the record is persisted, a create_recommendation that raises
\* never fails the trigger: derive goes on to the next step with the
\* record id kept and exactly the drafts of the other rules stored, and a
\* success response carries the persisted record id.
C37_CreateFailureNotFatal ==
    /\ [](/\ Len(cycle.stage_log) = Len(Pipeline)
             => /\ cycle.ldo_id = <<"ldo">>
                /\ Targets(cycle.recommendation_ids)
                      = Targets(rule_drafts(PlcOf(cycle.sensor_data))) \ cycle.failed
          /\ response = "success" => cycle.ldo_id = <<"ldo">>)
    /\ [][derive => trigger_pc' = "upload" /\ response' = "none"]_trigger_vars

\* C37 witness: a trigger answered success although the create of one
\* rule's draft raised, and the draft of another rule was stored.
C37_Witness ==
    /\ response = "success"
    /\ cycle.failed = {"rpm"}
    /\ Targets(cycle.recommendation_ids) = {"cycle_time"}
    /\ cycle.ldo_id = <<"ldo">>

\* C38: a driver read that raised part-way has returned the values
\* collected before the failure and left the driver without a client; a
\* read that found the driver without a client has called connect()
\* first, and returned an empty map without reading when the connect
\* failed.
C38_FailedReadDisconnectsThenReconnects ==
    driver_ret.op = "read"
        => /\ driver_ret.failed_at # 0
                 => /\ driver_ret.kind = "return"
                    /\ driver_ret.data = collected(driver_ret.failed_at)
                    /\ driver.client = "None"
           /\ ~driver_ret.had_client
                 => /\ driver_ret.connect_called
                    /\ ~driver_ret.connect_value
                          => /\ driver_ret.kind = "return"
                             /\ driver_ret.data = {}
                             /\ driver_ret.reads = 0

====
